---------------------------- MODULE Spec2Model ----------------------------
(***************************************************************************)
(* PHASMOWATCH (src/main.py): the loader of pointers.xml, the pointer-     *)
(* chain resolver, the majority vote over the resolved addresses and the   *)
(* poll loop of main(), with the signal handler that clears RUNNING.       *)
(*                                                                         *)
(* The target's memory is a map from addresses 1..MaxAddr to the 8-byte    *)
(* little-endian word read there; a cell holding Unreadable, and every     *)
(* address outside 1..MaxAddr, makes read_bytes raise.                     *)
(***************************************************************************)
EXTENDS Integers, Sequences, FiniteSets, TLC

\* ------------------------------------------------------------ bounds
MaxAddr    == 2     \* highest mapped address of the target
MaxOff     == 1     \* largest offset / base offset in a definition
MaxOffsets == 2     \* longest offset list of a definition
MaxDefs    == 3     \* most definitions in pointers.xml
MaxWrites  == 1     \* most writes of the target while main() runs
IntBits    == 16    \* bits of the value read at an address (the program's
                    \* 4-byte int scaled down; a pointer word is wider)

\* ------------------------------------------------------------ program constants
REFRESH_INTERVAL == 30

\* Python's None, for an address (addresses are naturals)
None == -1
\* a cell whose page is unmapped or protected
Unreadable == -2
\* the word whose low IntBits bits are all set: an unmapped pointer, and -1
\* as a signed int (0x00000000FFFFFFFF in the program's widths)
AllOnes == 2^IntBits - 1

Addrs    == 1..MaxAddr
CellVals == (0..MaxAddr) \cup {AllOnes, Unreadable}
Images   == [Addrs -> CellVals]

\* modules loaded in the target, with their base addresses
LoadedModules == [name \in {"GameAssembly.dll"} |-> 1]
ModuleNames   == {"GameAssembly.dll", "UnityPlayer.dll"}

Max(a, b) == IF a >= b THEN a ELSE b

RECURSIVE SeqsUpTo(_, _)
SeqsUpTo(S, n) ==
    IF n = 0 THEN {<<>>}
    ELSE LET shorter == SeqsUpTo(S, n - 1)
         IN  shorter \cup {Append(s, x) : s \in {t \in shorter : Len(t) = n - 1}, x \in S}

\* what load_entries appends: (module_name, base_offset, offsets)
Definitions ==
    {<<m, b, o>> : m \in ModuleNames, b \in 0..MaxOff, o \in SeqsUpTo(0..MaxOff, MaxOffsets)}

\* ------------------------------------------------------------ memory accessor
\* pm.read_bytes(a, n) raises unless a is mapped and readable
CanRead(m, a) == a \in DOMAIN m /\ m[a] # Unreadable

\* int.from_bytes(pm.read_bytes(a, 8), "little")
ReadPtr(m, a) == m[a]

\* struct.unpack("<i", pm.read_bytes(a, 4))[0]: the low half of the little-endian
\* word at a, as a signed int
ReadInt(m, a) ==
    LET w == m[a] % (2^IntBits)
    IN  IF w >= 2^(IntBits - 1) THEN w - 2^IntBits ELSE w

\* ------------------------------------------------------------ resolve_pointer
\* the loop over offsets[:-1]; reads is the list of addresses read_bytes was
\* called with, raised tells that a read raised
RECURSIVE FollowOffsets(_, _, _, _)
FollowOffsets(m, addr, offs, reads) ==
    IF offs = <<>>
    THEN [raised |-> FALSE, addr |-> addr, reads |-> reads]
    ELSE LET a == addr + Head(offs)
         IN  IF CanRead(m, a)
             THEN FollowOffsets(m, ReadPtr(m, a), Tail(offs), Append(reads, a))
             ELSE [raised |-> TRUE, addr |-> addr, reads |-> Append(reads, a)]

\* offsets[:-1] mistaken for the whole list: the last offset dereferenced too
AllButLast_Whole(s) == s

\* offsets[:-1]
AllButLast(s) == IF s = <<>> THEN <<>> ELSE SubSeq(s, 1, Len(s) - 1)

\* resolve_pointer with an except clause that returns the address reached so far
ResolveRun_Partial(m, module_name, base_offset, offsets) ==
    IF module_name \notin DOMAIN LoadedModules
    THEN [ret |-> None, reads |-> <<>>]
    ELSE LET base_addr == LoadedModules[module_name] + base_offset
         IN  IF ~CanRead(m, base_addr)
             THEN [ret |-> base_addr, reads |-> <<base_addr>>]
             ELSE LET w == FollowOffsets(m, ReadPtr(m, base_addr),
                                         AllButLast(offsets), <<base_addr>>)
                  IN  [ret   |-> w.addr + (IF offsets # <<>> /\ ~w.raised
                                            THEN offsets[Len(offsets)] ELSE 0),
                        reads |-> w.reads]

\* one call of resolve_pointer: ret is the value returned, reads the reads made
ResolveRun(m, module_name, base_offset, offsets) ==
    IF module_name \notin DOMAIN LoadedModules
    THEN [ret |-> None, reads |-> <<>>]
    ELSE LET base_addr == LoadedModules[module_name] + base_offset
         IN  IF ~CanRead(m, base_addr)
             THEN [ret |-> None, reads |-> <<base_addr>>]
             ELSE LET w == FollowOffsets(m, ReadPtr(m, base_addr),
                                         AllButLast(offsets), <<base_addr>>)
                  IN  IF w.raised
                      THEN [ret |-> None, reads |-> w.reads]
                      ELSE [ret   |-> w.addr + (IF offsets # <<>>
                                                THEN offsets[Len(offsets)] ELSE 0),
                            reads |-> w.reads]

resolve_pointer(m, module_name, base_offset, offsets) ==
    ResolveRun(m, module_name, base_offset, offsets).ret

\* ------------------------------------------------------------ the vote
\* addrs = [a for a, _ in results]
AddrsOf(res) == [k \in 1..Len(res) |-> res[k][1]]

\* Counter.__init__/update: one <<element, count>> per distinct element, in the
\* order of first insertion (dict order)
RECURSIVE CountInto(_, _)
CountInto(c, s) ==
    IF s = <<>> THEN c
    ELSE LET x == Head(s)
             at == {k \in 1..Len(c) : c[k][1] = x}
         IN  IF at = {}
             THEN CountInto(Append(c, <<x, 1>>), Tail(s))
             ELSE LET k == CHOOSE j \in at : TRUE
                  IN  CountInto([c EXCEPT ![k] = <<x, c[k][2] + 1>>], Tail(s))

Counter(s) == CountInto(<<>>, s)

\* the item of least count taken for the most common one
RECURSIVE MaxByCount_Least(_, _)
MaxByCount_Least(best, items) ==
    IF items = <<>> THEN best
    ELSE IF Head(items)[2] < best[2]
         THEN MaxByCount_Least(Head(items), Tail(items))
         ELSE MaxByCount_Least(best, Tail(items))

\* a later item of equal count replacing the earlier one
RECURSIVE MaxByCount_Last(_, _)
MaxByCount_Last(best, items) ==
    IF items = <<>> THEN best
    ELSE IF Head(items)[2] >= best[2]
         THEN MaxByCount_Last(Head(items), Tail(items))
         ELSE MaxByCount_Last(best, Tail(items))

\* max(items, key=itemgetter(1)): the first item whose count no later item exceeds
RECURSIVE MaxByCount(_, _)
MaxByCount(best, items) ==
    IF items = <<>> THEN best
    ELSE IF Head(items)[2] > best[2]
         THEN MaxByCount(Head(items), Tail(items))
         ELSE MaxByCount(best, Tail(items))

\* counter.most_common(1)[0], for a non-empty counter
most_common_1(c) == MaxByCount(Head(c), Tail(c))

\* lines 300-302: <<best_addr, count>>
Tally(res) == most_common_1(Counter(AddrsOf(res)))

\* ------------------------------------------------------------ state
VARIABLES
    RUNNING,    \* the global flag the signal handler clears
    pc,         \* where main() stands
    entries,    \* what load_entries returned
    mem,        \* the target's memory
    alive,      \* the target process exists
    pm,         \* the local pm: "None", or the Pymem object's state
    held,       \* handles acquired whose release has not been attempted
    i,          \* index of the next entry of the for loop of line 281
    results,    \* the list results
    attempts,   \* this cycle's resolve_pointer calls, one ResolveRun each
    best_addr, count, value,
    tick,       \* time.sleep(1) calls of the latest wait loop of this iteration
    wsite,      \* which of the five wait loops runs
    shown,      \* what the cycle has printed since clear_screen
    lateTicks,  \* time.sleep(1) calls begun with RUNNING already cleared
    hist,       \* history: the last attached cycle's outcome, the writes seen
    xml         \* the CheatEntry elements of pointers.xml

vars == <<RUNNING, pc, entries, mem, alive, pm, held, i, results, attempts,
          best_addr, count, value, tick, wsite, shown, lateTicks, hist, xml>>

Nothing == [kind |-> "nothing", addr |-> None, value |-> 0, count |-> 0, total |-> 0]

\* hist.last is what the latest attached cycle that ended had printed, hist.cur
\* tells that the target's memory changed since the latest attach, hist.since
\* that it changed since the attach of the cycle of hist.last, hist.writes
\* counts the target's writes
NoHistory == [last |-> Nothing, since |-> FALSE, cur |-> FALSE, writes |-> 0]
Failure(k) == [Nothing EXCEPT !.kind = k]

\* the message printed before each wait loop, by site
Message ==
    [nopid |-> "NoTarget", attach |-> "AttachFailed", noresults |-> "NoConsensus",
     readfail |-> "StabilizationReadFailed", refresh |-> "Result"]

Sites == DOMAIN Message

\* a shorter wait while the game is not there to attach to
WaitTicks_ByKind(site) ==
    IF site \in {"nopid", "attach"} THEN 1 ELSE Max(1, REFRESH_INTERVAL)

\* range(max(1, REFRESH_INTERVAL)) of the wait loop at a site
WaitTicks(site) == Max(1, REFRESH_INTERVAL)

\* ------------------------------------------------------------ inputs of the loop
BaseImage == [a \in Addrs |-> IF a < MaxAddr THEN a + 1 ELSE a]
LoopImages == {[BaseImage EXCEPT ![c] = v] : c \in Addrs, v \in CellVals}

\* every page of an exited target is gone
DeadImage == [a \in Addrs |-> Unreadable]

LoopDefs ==
    {<<"GameAssembly.dll", 0, <<>>>>, <<"GameAssembly.dll", 1, <<0>>>>,
     <<"GameAssembly.dll", 0, <<0, 1>>>>, <<"UnityPlayer.dll", 0, <<>>>>}

\* a pointers.xml of one to MaxDefs distinct chains
LoopEntries ==
    {e \in SeqsUpTo(LoopDefs, MaxDefs) :
        e # <<>> /\ \A j, k \in 1..Len(e) : j # k => e[j] # e[k]}

Init ==
    /\ RUNNING = TRUE
    /\ pc = "while"
    /\ entries \in LoopEntries
    /\ mem \in LoopImages
    /\ alive = TRUE
    /\ pm = "None"
    /\ held = 0
    /\ i = 1
    /\ results = <<>>
    /\ attempts = <<>>
    /\ best_addr = None
    /\ count = 0
    /\ value = 0
    /\ tick = 0
    /\ wsite = "nopid"
    /\ shown = Nothing
    /\ lateTicks = 0
    /\ hist = NoHistory
    /\ xml = <<>>

\* ------------------------------------------------------------ signal_handler
Cancel ==
    /\ RUNNING
    /\ RUNNING' = FALSE
    /\ UNCHANGED <<pc, entries, mem, alive, pm, held, i, results, attempts, best_addr,
                   count, value, tick, wsite, shown, lateTicks, hist, xml>>

\* ------------------------------------------------------------ main
\* print the site's message and enter its wait loop
StartWait(site, what) ==
    /\ shown' = what
    /\ wsite' = site
    /\ tick' = 0
    /\ pc' = "wait_check"

\* line 255: while RUNNING, then clear_screen and the header; line 335 otherwise
While ==
    /\ pc = "while"
    /\ IF RUNNING
       THEN pc' = "find_pid" /\ shown' = Nothing
       ELSE pc' = "stopped" /\ UNCHANGED shown
    /\ tick' = 0
    /\ UNCHANGED <<RUNNING, entries, mem, alive, pm, held, i, results, attempts,
                   best_addr, count, value, wsite, lateTicks, hist, xml>>

\* lines 259-266: the process is found or not
FindPid ==
    /\ pc = "find_pid"
    /\ \E found \in {FALSE, alive} :
          IF found
          THEN pc' = "attach" /\ UNCHANGED <<shown, wsite, tick>>
          ELSE StartWait("nopid", Failure(Message["nopid"]))
    /\ UNCHANGED <<RUNNING, entries, mem, alive, pm, held, i, results, attempts,
                   best_addr, count, value, lateTicks, hist, xml>>

\* `results = []` done once before the loop instead of in every cycle
Attach_KeepResults ==
    /\ pc = "attach"
    /\ \E ok \in {FALSE, alive} :
          IF ok
          THEN /\ pm' = "open"
               /\ held' = held + 1
               /\ attempts' = <<>>
               /\ i' = 1
               /\ pc' = "resolve"
               /\ hist' = [hist EXCEPT !.cur = FALSE]
               /\ UNCHANGED <<shown, wsite, tick>>
          ELSE /\ pm' = "None"
               /\ StartWait("attach", Failure(Message["attach"]))
               /\ UNCHANGED <<held, attempts, i, hist>>
    /\ UNCHANGED <<RUNNING, entries, mem, alive, results, best_addr, count, value,
                   lateTicks, xml>>

\* Pymem(PROCESS_NAME) tried again at once when it raised
Attach_RetryNow ==
    /\ pc = "attach"
    /\ \E ok \in {FALSE, alive} :
          IF ok
          THEN /\ pm' = "open"
               /\ held' = held + 1
               /\ results' = <<>>
               /\ attempts' = <<>>
               /\ i' = 1
               /\ pc' = "resolve"
               /\ hist' = [hist EXCEPT !.cur = FALSE]
               /\ UNCHANGED <<shown, wsite, tick>>
          ELSE /\ pm' = "None"
               /\ shown' = Failure(Message["attach"])
               /\ UNCHANGED <<pc, wsite, tick, held, results, attempts, i, hist>>
    /\ UNCHANGED <<RUNNING, entries, mem, alive, best_addr, count, value, lateTicks, xml>>

\* lines 268-280: pm = None, Pymem(PROCESS_NAME) succeeds or raises
Attach ==
    /\ pc = "attach"
    /\ \E ok \in {FALSE, alive} :
          IF ok
          THEN /\ pm' = "open"
               /\ held' = held + 1
               /\ results' = <<>>
               /\ attempts' = <<>>
               /\ i' = 1
               /\ pc' = "resolve"
               /\ hist' = [hist EXCEPT !.cur = FALSE]
               /\ UNCHANGED <<shown, wsite, tick>>
          ELSE /\ pm' = "None"
               /\ StartWait("attach", Failure(Message["attach"]))
               /\ UNCHANGED <<held, results, attempts, i, hist>>
    /\ UNCHANGED <<RUNNING, entries, mem, alive, best_addr, count, value, lateTicks, xml>>

\* one resolve_pointer call of the loop over entries: what it returned, what it
\* read, and whether pm.read_bytes(addr, 4) was then called
Attempt(run, tried) == [ret |-> run.ret, reads |-> run.reads, tried |-> tried]

\* the loop body with `if addr is not None:` for `if addr:`
ResolveEntry_ReadAtZero ==
    /\ pc = "resolve"
    /\ i <= Len(entries)
    /\ LET run  == ResolveRun(mem, entries[i][1], entries[i][2], entries[i][3])
           addr == run.ret
       IN  /\ attempts' = Append(attempts, Attempt(run, addr # None))
           /\ results' = IF addr # None /\ CanRead(mem, addr)
                         THEN Append(results, <<addr, ReadInt(mem, addr)>>)
                         ELSE results
    /\ i' = i + 1
    /\ UNCHANGED <<RUNNING, pc, entries, mem, alive, pm, held, best_addr, count, value,
                   tick, wsite, shown, lateTicks, hist, xml>>

\* the loop body keeping an address whose value could not be read
ResolveEntry_KeepUnread ==
    /\ pc = "resolve"
    /\ i <= Len(entries)
    /\ LET run  == ResolveRun(mem, entries[i][1], entries[i][2], entries[i][3])
           addr == run.ret
       IN  /\ attempts' = Append(attempts, Attempt(run, addr # None /\ addr # 0))
           /\ results' = IF addr # None /\ addr # 0
                         THEN Append(results, <<addr, IF CanRead(mem, addr)
                                                      THEN ReadInt(mem, addr) ELSE 0>>)
                         ELSE results
    /\ i' = i + 1
    /\ UNCHANGED <<RUNNING, pc, entries, mem, alive, pm, held, best_addr, count, value,
                   tick, wsite, shown, lateTicks, hist, xml>>

\* the loop over entries left by `if not RUNNING: break`
ResolveEntry_Preempt ==
    /\ pc = "resolve"
    /\ i <= Len(entries)
    /\ LET run  == ResolveRun(mem, entries[i][1], entries[i][2], entries[i][3])
           addr == run.ret
       IN  IF RUNNING
           THEN /\ attempts' = Append(attempts, Attempt(run, addr # None /\ addr # 0))
                /\ results' = IF addr # None /\ addr # 0 /\ CanRead(mem, addr)
                              THEN Append(results, <<addr, ReadInt(mem, addr)>>)
                              ELSE results
                /\ i' = i + 1
           ELSE /\ i' = Len(entries) + 1
                /\ UNCHANGED <<attempts, results>>
    /\ UNCHANGED <<RUNNING, pc, entries, mem, alive, pm, held, best_addr, count, value,
                   tick, wsite, shown, lateTicks, hist, xml>>

\* lines 281-290: one iteration of the loop over entries
ResolveEntry ==
    /\ pc = "resolve"
    /\ i <= Len(entries)
    /\ LET run  == ResolveRun(mem, entries[i][1], entries[i][2], entries[i][3])
           addr == run.ret
       IN  /\ attempts' = Append(attempts, Attempt(run, addr # None /\ addr # 0))
           /\ results' = IF addr # None /\ addr # 0 /\ CanRead(mem, addr)
                         THEN Append(results, <<addr, ReadInt(mem, addr)>>)
                         ELSE results
    /\ i' = i + 1
    /\ UNCHANGED <<RUNNING, pc, entries, mem, alive, pm, held, best_addr, count, value,
                   tick, wsite, shown, lateTicks, hist, xml>>

\* the vote and the read of its winner run on an empty results too
Vote_NoCheck ==
    /\ pc = "resolve"
    /\ i > Len(entries)
    /\ best_addr' = IF results = <<>> THEN None ELSE Tally(results)[1]
    /\ count' = IF results = <<>> THEN 0 ELSE Tally(results)[2]
    /\ pc' = "confirm"
    /\ UNCHANGED <<RUNNING, entries, mem, alive, pm, held, i, results, attempts, value,
                   tick, wsite, shown, lateTicks, hist, xml>>

\* lines 292-302: no results, or the vote
Vote ==
    /\ pc = "resolve"
    /\ i > Len(entries)
    /\ IF results = <<>>
       THEN /\ StartWait("noresults", Failure(Message["noresults"]))
            /\ UNCHANGED <<best_addr, count>>
       ELSE /\ best_addr' = Tally(results)[1]
            /\ count' = Tally(results)[2]
            /\ pc' = "confirm"
            /\ UNCHANGED <<shown, wsite, tick>>
    /\ UNCHANGED <<RUNNING, entries, mem, alive, pm, held, i, results, attempts, value,
                   lateTicks, hist, xml>>

\* the ratio printed over the number of distinct addresses
Confirm_DistinctTotal ==
    /\ pc = "confirm"
    /\ IF CanRead(mem, best_addr)
       THEN /\ value' = ReadInt(mem, best_addr)
            /\ StartWait("refresh",
                         [kind |-> Message["refresh"], addr |-> best_addr,
                          value |-> ReadInt(mem, best_addr), count |-> count,
                          total |-> Len(Counter(AddrsOf(results)))])
       ELSE /\ StartWait("readfail", Failure(Message["readfail"]))
            /\ UNCHANGED value
    /\ UNCHANGED <<RUNNING, entries, mem, alive, pm, held, i, results, attempts,
                   best_addr, count, lateTicks, hist, xml>>

\* the result printed with the value read in the loop over entries
Confirm_FirstValue ==
    /\ pc = "confirm"
    /\ LET k == CHOOSE k \in 1..Len(results) :
                    /\ results[k][1] = best_addr
                    /\ \A j \in 1..(k - 1) : results[j][1] # best_addr
       IN  /\ value' = results[k][2]
           /\ StartWait("refresh",
                        [kind |-> Message["refresh"], addr |-> best_addr,
                         value |-> results[k][2], count |-> count,
                         total |-> Len(results)])
    /\ UNCHANGED <<RUNNING, entries, mem, alive, pm, held, i, results, attempts,
                   best_addr, count, lateTicks, hist, xml>>

\* lines 304-321: the read of the winner, then the result or the failure
Confirm ==
    /\ pc = "confirm"
    /\ IF CanRead(mem, best_addr)
       THEN /\ value' = ReadInt(mem, best_addr)
            /\ StartWait("refresh",
                         [kind |-> Message["refresh"], addr |-> best_addr,
                          value |-> ReadInt(mem, best_addr), count |-> count,
                          total |-> Len(results)])
       ELSE /\ StartWait("readfail", Failure(Message["readfail"]))
            /\ UNCHANGED value
    /\ UNCHANGED <<RUNNING, entries, mem, alive, pm, held, i, results, attempts,
                   best_addr, count, lateTicks, hist, xml>>

\* a wait loop that sleeps the whole interval without looking at RUNNING
WaitCheck_NoFlag ==
    /\ pc = "wait_check"
    /\ pc' = IF tick < WaitTicks(wsite) THEN "wait_sleep" ELSE "wait_done"
    /\ UNCHANGED <<RUNNING, entries, mem, alive, pm, held, i, results, attempts,
                   best_addr, count, value, tick, wsite, shown, lateTicks, hist, xml>>

\* the head of a wait loop: range exhausted, or `if not RUNNING: break`
WaitCheck ==
    /\ pc = "wait_check"
    /\ pc' = IF tick < WaitTicks(wsite) /\ RUNNING THEN "wait_sleep" ELSE "wait_done"
    /\ UNCHANGED <<RUNNING, entries, mem, alive, pm, held, i, results, attempts,
                   best_addr, count, value, tick, wsite, shown, lateTicks, hist, xml>>

\* time.sleep(1)
WaitSleep ==
    /\ pc = "wait_sleep"
    /\ tick' = tick + 1
    /\ lateTicks' = IF RUNNING THEN lateTicks ELSE lateTicks + 1
    /\ pc' = "wait_check"
    /\ UNCHANGED <<RUNNING, entries, mem, alive, pm, held, i, results, attempts,
                   best_addr, count, value, wsite, shown, hist, xml>>

\* line 277 without its `continue`: the try body entered after a failed attach
WaitDone_FallThrough ==
    /\ pc = "wait_done"
    /\ IF wsite = "attach"
       THEN /\ pc' = "resolve"
            /\ results' = <<>>
            /\ attempts' = <<>>
            /\ i' = 1
       ELSE /\ pc' = IF wsite = "nopid" THEN "while" ELSE "finally"
            /\ UNCHANGED <<results, attempts, i>>
    /\ UNCHANGED <<RUNNING, entries, mem, alive, pm, held, best_addr, count, value,
                   tick, wsite, shown, lateTicks, hist, xml>>

\* `return` where line 266 has `continue`: giving up when the game is not found
WaitDone_ReturnNoTarget ==
    /\ pc = "wait_done"
    /\ pc' = IF wsite = "nopid" THEN "stopped"
             ELSE IF wsite = "attach" THEN "while" ELSE "finally"
    /\ UNCHANGED <<RUNNING, entries, mem, alive, pm, held, i, results, attempts,
                   best_addr, count, value, tick, wsite, shown, lateTicks, hist, xml>>

\* after a wait loop: `continue` (lines 266, 277: outside the try; 298, 313:
\* inside it) or the end of the try body (line 325)
WaitDone ==
    /\ pc = "wait_done"
    /\ pc' = IF wsite \in {"nopid", "attach"} THEN "while" ELSE "finally"
    /\ UNCHANGED <<RUNNING, entries, mem, alive, pm, held, i, results, attempts,
                   best_addr, count, value, tick, wsite, shown, lateTicks, hist, xml>>

\* the loop going round without the finally clause
Finally_NoClose ==
    /\ pc = "finally"
    /\ pc' = "while"
    /\ UNCHANGED <<RUNNING, entries, mem, alive, pm, held, i, results, attempts,
                   best_addr, count, value, tick, wsite, shown, lateTicks, hist, xml>>

\* lines 327-333: close_process succeeds, or raises and is swallowed
Finally ==
    /\ pc = "finally"
    /\ IF pm # "None"
       THEN /\ \E ok \in BOOLEAN : pm' = IF ok THEN "closed" ELSE "close_failed"
            /\ held' = held - 1
       ELSE UNCHANGED <<pm, held>>
    /\ pc' = "while"
    /\ hist' = [hist EXCEPT !.last = shown, !.since = hist.cur]
    /\ UNCHANGED <<RUNNING, entries, mem, alive, i, results, attempts, best_addr, count,
                   value, tick, wsite, shown, lateTicks, xml>>

Main ==
    \/ While
    \/ FindPid
    \/ Attach
    \/ ResolveEntry
    \/ Vote
    \/ Confirm
    \/ WaitCheck
    \/ WaitSleep
    \/ WaitDone
    \/ Finally

\* the target process exits: from then on every read of it raises
TargetExit ==
    /\ alive
    /\ pc # "stopped"
    /\ alive' = FALSE
    /\ mem' = DeadImage
    /\ hist' = [hist EXCEPT !.since = TRUE, !.cur = TRUE]
    /\ UNCHANGED <<RUNNING, pc, entries, pm, held, i, results, attempts, best_addr,
                   count, value, tick, wsite, shown, lateTicks, xml>>

Next == Main \/ Cancel \/ TargetExit

Spec == Init /\ [][Next]_vars

\* main() keeps running: every call it makes returns
InitLive == Init /\ mem = BaseImage
LiveSpec == InitLive /\ [][Next]_vars /\ WF_vars(Main)

\* the game writes one of its cells, or unmaps it, while main() runs
TargetWrite ==
    /\ alive
    /\ pc # "stopped"
    /\ hist.writes < MaxWrites
    /\ \E a \in Addrs : \E v \in CellVals \ {mem[a]} : mem' = [mem EXCEPT ![a] = v]
    /\ hist' = [hist EXCEPT !.since = TRUE, !.cur = TRUE, !.writes = @ + 1]
    /\ UNCHANGED <<RUNNING, pc, entries, alive, pm, held, i, results, attempts,
                   best_addr, count, value, tick, wsite, shown, lateTicks, xml>>

\* main() over a target that stays up and changes its memory, with one or two
\* definitions of at most one offset in the loaded module
WriteDefs == {d \in LoopDefs : d[1] \in DOMAIN LoadedModules /\ Len(d[3]) <= 1}

InitWrite ==
    /\ Init
    /\ mem = BaseImage
    /\ alive
    /\ Len(entries) <= 2
    /\ \A k \in 1..Len(entries) : entries[k] \in WriteDefs

NextWrite == Main \/ Cancel \/ TargetWrite

SpecWrite == InitWrite /\ [][NextWrite]_vars

\* ------------------------------------------------------------ the loader
\* A text is a sequence of one-character strings. What may be None in the
\* source (findtext's result, a node's text, the Offsets node) is a sequence of
\* no element for None and of one element otherwise.
HexDigits == <<"0", "1", "2", "3", "4", "5", "6", "7", "8", "9",
               "a", "b", "c", "d", "e", "f">>
Uppers == [c \in {"A", "B", "C", "D", "E", "F", "X"} |->
             CASE c = "A" -> "a" [] c = "B" -> "b" [] c = "C" -> "c" [] c = "D" -> "d"
               [] c = "E" -> "e" [] c = "F" -> "f" [] c = "X" -> "x"]

\* str.lower()
lower(t) == [k \in 1..Len(t) |-> IF t[k] \in DOMAIN Uppers THEN Uppers[t[k]] ELSE t[k]]

\* str.strip(): the texts' only whitespace is the blank
RECURSIVE lstrip(_)
lstrip(t) == IF t # <<>> /\ Head(t) = " " THEN lstrip(Tail(t)) ELSE t

RECURSIVE rstrip(_)
rstrip(t) ==
    IF t # <<>> /\ t[Len(t)] = " " THEN rstrip(SubSeq(t, 1, Len(t) - 1)) ELSE t

strip(t) == rstrip(lstrip(t))

\* str.replace(old, ""): the occurrences of old found from left to right
RECURSIVE replace(_, _)
replace(t, old) ==
    IF Len(t) < Len(old) THEN t
    ELSE IF SubSeq(t, 1, Len(old)) = old
         THEN replace(SubSeq(t, Len(old) + 1, Len(t)), old)
         ELSE <<Head(t)>> \o replace(Tail(t), old)

IsHex(c) == \E k \in DOMAIN HexDigits : HexDigits[k] = c

HexValue(c) == (CHOOSE k \in DOMAIN HexDigits : HexDigits[k] = c) - 1

RECURSIVE HexNumber(_)
HexNumber(t) ==
    IF t = <<>> THEN 0
    ELSE HexNumber(SubSeq(t, 1, Len(t) - 1)) * Len(HexDigits) + HexValue(t[Len(t)])

\* int(t, 16) on a text without sign or underscore: blanks around are dropped,
\* a 0x or 0X prefix is accepted, and anything but hexadecimal digits, or no
\* digit at all, raises ValueError
int16(t) ==
    LET s    == strip(t)
        body == IF Len(s) >= 2 /\ lower(SubSeq(s, 1, 2)) = <<"0", "x">>
                THEN SubSeq(s, 3, Len(s)) ELSE s
        ok   == body # <<>> /\ \A k \in 1..Len(body) : IsHex(lower(body)[k])
    IN  [raised |-> ~ok, val |-> IF ok THEN HexNumber(lower(body)) ELSE 0]

\* where the first "+" of s is, or 0
FirstPlus(s) ==
    IF \E k \in 1..Len(s) : s[k] = "+"
    THEN CHOOSE k \in 1..Len(s) : s[k] = "+" /\ \A j \in 1..(k - 1) : s[j] # "+"
    ELSE 0

\* lines 132-135: without a "+" the unpacking of s.split("+", 1) raises
parse_address_spec(spec) ==
    LET s   == replace(strip(spec), <<"\"">>)
        p   == FirstPlus(s)
        off == int16(replace(strip(SubSeq(s, p + 1, Len(s))), <<"0", "x">>))
    IN  IF p = 0 \/ off.raised
        THEN [raised |-> TRUE, module_name |-> <<>>, base_offset |-> 0]
        ELSE [raised |-> FALSE, module_name |-> strip(SubSeq(s, 1, p - 1)),
              base_offset |-> off.val]

\* line 141: (n.text or "").strip().lower().replace("0x", "")
OffsetText(node) ==
    replace(lower(strip(IF node = <<>> THEN <<>> ELSE node[1])), <<"0", "x">>)

\* the offsets kept where every offset appended to offs was put in front
RECURSIVE parse_offsets_Prepend(_)
parse_offsets_Prepend(offset_nodes) ==
    IF offset_nodes = <<>> THEN [raised |-> FALSE, offs |-> <<>>]
    ELSE LET front == parse_offsets_Prepend(SubSeq(offset_nodes, 1, Len(offset_nodes) - 1))
             txt   == OffsetText(offset_nodes[Len(offset_nodes)])
         IN  IF front.raised \/ txt = <<>> THEN front
             ELSE IF int16(txt).raised THEN [raised |-> TRUE, offs |-> <<>>]
             ELSE [raised |-> FALSE, offs |-> <<int16(txt).val>> \o front.offs]

\* lines 138-144: the nodes in order, the first malformed one raising
RECURSIVE parse_offsets(_)
parse_offsets(offset_nodes) ==
    IF offset_nodes = <<>> THEN [raised |-> FALSE, offs |-> <<>>]
    ELSE LET front == parse_offsets(SubSeq(offset_nodes, 1, Len(offset_nodes) - 1))
             txt   == OffsetText(offset_nodes[Len(offset_nodes)])
         IN  IF front.raised \/ txt = <<>> THEN front
             ELSE IF int16(txt).raised THEN [raised |-> TRUE, offs |-> <<>>]
             ELSE [raised |-> FALSE, offs |-> Append(front.offs, int16(txt).val)]

\* list.reverse()
reverse(offs) == [k \in 1..Len(offs) |-> offs[Len(offs) + 1 - k]]

\* lines 172-183: the body of the loop over the CheatEntry elements for one
\* entry: what is raised, and what is appended to parsed
LoadEntry(entry) ==
    LET offsets == IF entry.Offsets # <<>>
                   THEN parse_offsets(entry.Offsets[1])
                   ELSE [raised |-> FALSE, offs |-> <<>>]
        falsy   == entry.Address = <<>> \/ entry.Address[1] = <<>>
        spec    == parse_address_spec(entry.Address[1])
    IN  IF offsets.raised THEN [raised |-> TRUE, add |-> <<>>]
        ELSE IF falsy THEN [raised |-> FALSE, add |-> <<>>]
        ELSE IF spec.raised THEN [raised |-> TRUE, add |-> <<>>]
        ELSE [raised |-> FALSE,
              add |-> <<<<spec.module_name, spec.base_offset, reverse(offsets.offs)>>>>]

\* lines 168-184: the exception of the first entry that raises ends the call
RECURSIVE load_entries(_)
load_entries(file) ==
    IF file = <<>> THEN [raised |-> FALSE, parsed |-> <<>>]
    ELSE LET front == load_entries(SubSeq(file, 1, Len(file) - 1))
             last  == LoadEntry(file[Len(file)])
         IN  IF front.raised \/ last.raised THEN [raised |-> TRUE, parsed |-> <<>>]
             ELSE [raised |-> FALSE, parsed |-> front.parsed \o last.add]

\* the Address elements tried: none, an empty one, G+10, "U +0x2" with blanks
\* around, and one without "+"
AddressFields ==
    { <<>>,
      << <<>> >>,
      << <<"G", "+", "1", "0">> >>,
      << <<" ", "\"", "U", " ", "+", " ", "0", "x", "2", "\"", " ">> >>,
      << <<"G">> >> }

\* the Offset elements tried: 0x8, 4, " 0X1A ", a blank one, one without text,
\* and one that is no number
OffsetNodes ==
    [ o8 |-> << <<"0", "x", "8">> >>,
      o4 |-> << <<"4">> >>,
      o1A |-> << <<" ", "0", "X", "1", "A", " ">> >>,
      blank |-> << <<" ">> >>,
      empty |-> <<>>,
      bad |-> << <<"z">> >> ]

\* the Offsets elements tried: none, one of numbers and blanks, and one with
\* an Offset that is no number
OffsetsFields ==
    { <<>>,
      << <<OffsetNodes.o8, OffsetNodes.blank, OffsetNodes.o1A, OffsetNodes.empty,
           OffsetNodes.o4>> >>,
      << <<OffsetNodes.o4, OffsetNodes.bad>> >> }

XmlEntries == [Address : AddressFields, Offsets : OffsetsFields]

\* main() up to its loop: pointers.xml exists and holds up to MaxDefs entries
InitLoad ==
    /\ RUNNING = TRUE
    /\ pc = "load"
    /\ xml \in SeqsUpTo(XmlEntries, MaxDefs)
    /\ entries = <<>>
    /\ mem = BaseImage
    /\ alive = TRUE
    /\ pm = "None"
    /\ held = 0
    /\ i = 1
    /\ results = <<>>
    /\ attempts = <<>>
    /\ best_addr = None
    /\ count = 0
    /\ value = 0
    /\ tick = 0
    /\ wsite = "nopid"
    /\ shown = Nothing
    /\ lateTicks = 0
    /\ hist = NoHistory

\* lines 249-253: load_entries raises (main() ends with the traceback), returns
\* no entry (main() returns), or returns the entries of the loop
Load ==
    /\ pc = "load"
    /\ LET run == load_entries(xml)
       IN  IF run.raised
           THEN pc' = "crashed" /\ UNCHANGED entries
           ELSE /\ entries' = run.parsed
                /\ pc' = IF run.parsed = <<>> THEN "no_entries" ELSE "loaded"
    /\ UNCHANGED <<RUNNING, mem, alive, pm, held, i, results, attempts, best_addr,
                   count, value, tick, wsite, shown, lateTicks, hist, xml>>

NextLoad == Load

SpecLoad == InitLoad /\ [][NextLoad]_vars

\* ------------------------------------------------------------ the functions alone
\* resolve_pointer on any definition over any memory image, and the tally of
\* lines 300-302 on any list of results
VoteInputs ==
    SeqsUpTo({<<a, v>> : a \in Addrs, v \in {0, -1}}, MaxDefs + 1) \ {<<>>}

InitFn ==
    /\ RUNNING = TRUE
    /\ alive = TRUE
    /\ pm = "open"
    /\ held = 1
    /\ i = 1
    /\ attempts = <<>>
    /\ best_addr = None
    /\ count = 0
    /\ value = 0
    /\ tick = 0
    /\ wsite = "refresh"
    /\ shown = Nothing
    /\ lateTicks = 0
    /\ hist = NoHistory
    /\ xml = <<>>
    /\ \/ /\ pc = "call_resolve"
          /\ entries \in {<<d>> : d \in Definitions}
          /\ mem \in Images
          /\ results = <<>>
       \/ /\ pc = "call_tally"
          /\ entries = <<>>
          /\ mem = BaseImage
          /\ results \in VoteInputs

CallResolve ==
    /\ pc = "call_resolve"
    /\ attempts' = <<ResolveRun(mem, entries[1][1], entries[1][2], entries[1][3])>>
    /\ pc' = "resolved"
    /\ UNCHANGED <<RUNNING, entries, mem, alive, pm, held, i, results, best_addr,
                   count, value, tick, wsite, shown, lateTicks, hist, xml>>

CallTally ==
    /\ pc = "call_tally"
    /\ best_addr' = Tally(results)[1]
    /\ count' = Tally(results)[2]
    /\ pc' = "tallied"
    /\ UNCHANGED <<RUNNING, entries, mem, alive, pm, held, i, results, attempts,
                   value, tick, wsite, shown, lateTicks, hist, xml>>

NextFn == CallResolve \/ CallTally

SpecFn == InitFn /\ [][NextFn]_vars

\* ------------------------------------------------------------ the claims
\* The chain of a definition d over an image m, told by position: Chain(m, d)[0]
\* is the pointer at module base + base_offset, Chain(m, d)[k] the pointer at
\* Chain(m, d)[k-1] + offsets[k]; Unreadable from the first read that fails on.
BaseOf(d) == LoadedModules[d[1]] + d[2]

Chain(m, d) ==
    LET P[k \in 0..Max(0, Len(d[3]) - 1)] ==
            IF k = 0
            THEN IF CanRead(m, BaseOf(d)) THEN m[BaseOf(d)] ELSE Unreadable
            ELSE IF P[k - 1] = Unreadable \/ ~CanRead(m, P[k - 1] + d[3][k])
                 THEN Unreadable
                 ELSE m[P[k - 1] + d[3][k]]
    IN  P

\* the address the read number k (from 0) of the chain is made at
ReadAt(m, d, k) == IF k = 0 THEN BaseOf(d) ELSE Chain(m, d)[k - 1] + d[3][k]

ModuleFound(d) == d[1] \in DOMAIN LoadedModules

AllReadsSucceed(m, d) ==
    ModuleFound(d) /\ \A k \in 0..Max(0, Len(d[3]) - 1) : Chain(m, d)[k] # Unreadable

\* C1: when the module lookup and every read succeed, resolve_pointer returns
\* p_(n-1) + o_n (p0 when n = 0), having read exactly at module base +
\* base_offset and at p_(k-1) + o_k for k < n: 1 + max(0, n-1) reads, the last
\* offset added and never dereferenced.
C1_ResolveExact ==
    (pc = "resolved" /\ AllReadsSucceed(mem, entries[1])) =>
        LET d == entries[1]
            n == Len(d[3])
            P == Chain(mem, d)
        IN  /\ attempts[1].ret = IF n = 0 THEN P[0] ELSE P[n - 1] + d[3][n]
            /\ Len(attempts[1].reads) = 1 + Max(0, n - 1)
            /\ \A k \in 0..Max(0, n - 1) : attempts[1].reads[k + 1] = ReadAt(mem, d, k)

\* a chain of two offsets resolved through two reads, the last offset not zero
C1_Witness ==
    /\ pc = "resolved"
    /\ AllReadsSucceed(mem, entries[1])
    /\ Len(entries[1][3]) = 2
    /\ entries[1][3][2] = 1
    /\ Len(attempts[1].reads) = 2
    /\ attempts[1].ret = mem[attempts[1].reads[2]] + 1

\* the number of the first read of the chain that fails
FirstBad(m, d) ==
    CHOOSE k \in 0..Max(0, Len(d[3]) - 1) :
        /\ Chain(m, d)[k] = Unreadable
        /\ \A j \in 0..(k - 1) : Chain(m, d)[j] # Unreadable

\* main() stands after the loop over entries, in the cycle that ran it
PastResolution ==
    \/ pc = "confirm"
    \/ pc \in {"wait_check", "wait_sleep", "wait_done"}
       /\ wsite \in {"noresults", "readfail", "refresh"}

\* C2: a chain whose module lookup or any read fails returns None, with no read
\* made after the failing one (none at all when the lookup fails), and the loop
\* goes on: every definition has been tried once the loop over entries is left.
C2_AllOrNothing ==
    [][/\ (pc = "resolve" /\ i' = i + 1 /\ ~AllReadsSucceed(mem, entries[i])) =>
            LET d   == entries[i]
                run == attempts'[i]
            IN  /\ Len(attempts') = i
                /\ run.ret = None
                /\ pc' = "resolve"
                /\ IF ModuleFound(d)
                   THEN /\ Len(run.reads) = FirstBad(mem, d) + 1
                        /\ \A k \in 0..FirstBad(mem, d) :
                              run.reads[k + 1] = ReadAt(mem, d, k)
                        /\ \A k \in 1..(Len(run.reads) - 1) : CanRead(mem, run.reads[k])
                        /\ ~CanRead(mem, run.reads[Len(run.reads)])
                   ELSE run.reads = <<>>
       /\ PastResolution' => Len(attempts') = Len(entries)
      ]_vars

\* a chain that failed at its second read, after which a later chain resolved
C2_Witness ==
    /\ pc = "confirm"
    /\ alive
    /\ \E k \in 1..(Len(attempts) - 1) :
          /\ attempts[k].ret = None
          /\ Len(attempts[k].reads) = 2
          /\ attempts[k + 1].ret > 0
          /\ CanRead(mem, attempts[k + 1].ret)

\* occurrences of a in the list of addresses s
Occurrences(s, a) == Cardinality({k \in 1..Len(s) : s[k] = a})

\* C3: an emitted result names an address of the vote whose occurrence count no
\* other address of the vote exceeds, agreement_count is that count and
\* total_resolved the number of addresses in the vote; when all N definitions
\* resolved to one address A the result is (A, value at A, N, N).
C3_WinnerIsMaximal ==
    shown.kind = "Result" =>
        LET A == AddrsOf(results)
        IN  /\ \E k \in 1..Len(A) : A[k] = shown.addr
            /\ shown.count = Occurrences(A, shown.addr)
            /\ \A k \in 1..Len(A) : Occurrences(A, A[k]) <= shown.count
            /\ shown.total = Len(A)
            /\ (\A k \in 1..Len(entries) : attempts[k].ret = attempts[1].ret) =>
                  /\ shown.addr = attempts[1].ret
                  /\ shown.count = Len(entries)
                  /\ shown.total = Len(entries)
                  /\ alive => shown.value = ReadInt(mem, attempts[1].ret)

\* three definitions, the first alone, the other two agreeing: the winner is
\* not the first address
C3_Witness ==
    /\ shown.kind = "Result"
    /\ Len(results) = 3
    /\ shown.count = 2
    /\ shown.total = 3
    /\ results[1][1] # shown.addr

\* index of the first occurrence of a in s
FirstIndex(s, a) == CHOOSE k \in 1..Len(s) : s[k] = a /\ \A j \in 1..(k - 1) : s[j] # a

\* C4: among the addresses with the greatest occurrence count the winner is the
\* one that occurs first in the list, for every list of results.
C4_TieBreakFirst ==
    pc = "tallied" =>
        LET A == AddrsOf(results)
        IN  /\ \E k \in 1..Len(A) : A[k] = best_addr
            /\ count = Occurrences(A, best_addr)
            /\ \A k \in 1..Len(A) :
                  \/ Occurrences(A, A[k]) < count
                  \/ /\ Occurrences(A, A[k]) = count
                     /\ FirstIndex(A, best_addr) <= FirstIndex(A, A[k])

\* a 2-2 tie whose first address is neither the smallest nor the last seen
C4_Witness ==
    /\ pc = "tallied"
    /\ AddrsOf(results) = <<2, 1, 2, 1>>
    /\ best_addr = 2
    /\ count = 2

\* the addresses among rets, in order, that are neither None nor 0 and pass ok
RECURSIVE Kept(_, _, _)
Kept(runs, m, needRead) ==
    IF runs = <<>> THEN <<>>
    ELSE LET a == Head(runs).ret
         IN  IF a # None /\ a # 0 /\ (needRead => CanRead(m, a))
             THEN <<a>> \o Kept(Tail(runs), m, needRead)
             ELSE Kept(Tail(runs), m, needRead)

\* C5 as claimed: every chain that resolved to an address is in the vote and in
\* total_resolved, whether or not the value at the address could be read.
C5_UnreadStillCounted ==
    (alive /\ shown.kind = "Result") =>
        /\ AddrsOf(results) = Kept(attempts, mem, FALSE)
        /\ shown.total = Len(Kept(attempts, mem, FALSE))

\* C5 as amended: the vote and total_resolved hold exactly the resolved
\* addresses whose first 4-byte read succeeded, in definition order; an address
\* whose read failed is left out; the value shown is the one read at the winner.
C5_OnlyReadableCounted ==
    (alive /\ PastResolution) =>
        /\ AddrsOf(results) = Kept(attempts, mem, TRUE)
        /\ shown.kind = "Result" =>
              /\ shown.total = Len(Kept(attempts, mem, TRUE))
              /\ shown.value = ReadInt(mem, shown.addr)

\* a result emitted by a cycle in which one chain resolved to an address that
\* could not be read
C5_Witness ==
    /\ alive
    /\ shown.kind = "Result"
    /\ \E k \in 1..Len(attempts) :
          attempts[k].ret > 0 /\ ~CanRead(mem, attempts[k].ret)
    /\ shown.total < Len(Kept(attempts, mem, FALSE))

\* C6: an emitted result has 1 <= agreement_count <= total_resolved <= number
\* of definitions, and comes from a cycle with at least one result.
C6_CountBounds ==
    shown.kind = "Result" =>
        /\ 1 <= shown.count
        /\ shown.count <= shown.total
        /\ shown.total <= Len(entries)
        /\ Len(results) >= 1

\* a result with count < total < number of definitions
C6_Witness ==
    /\ shown.kind = "Result"
    /\ shown.count = 1
    /\ shown.total = 2
    /\ Len(entries) = 3

\* C7 as claimed: no handle is held while a wait loop runs.
C7_NoHandleInWait ==
    pc \in {"wait_check", "wait_sleep"} => held = 0

\* C8: at most one handle is held, and none when the loop tests RUNNING, looks
\* for the process, attaches or has stopped: the release was attempted on the
\* way there, whatever the cycle's outcome.
C8_HandleReleased ==
    /\ held <= 1
    /\ (held = 1) <=> (pm = "open")
    /\ pc \in {"while", "find_pid", "attach", "stopped"} => held = 0

\* stopped after a cycle whose final read failed and whose release raised
C8_Witness ==
    /\ pc = "stopped"
    /\ pm = "close_failed"
    /\ held = 0
    /\ shown.kind = "StabilizationReadFailed"

\* C9: each wait loop runs under the message of its site, and a wait that
\* cancellation did not cut short has slept max(1, REFRESH_INTERVAL) ticks
\* when the loop next tests RUNNING, whatever the site.
C9_SameWait ==
    /\ pc \in {"wait_check", "wait_sleep", "wait_done"} => shown.kind = Message[wsite]
    /\ tick <= Max(1, REFRESH_INTERVAL)
    /\ (pc \in {"wait_done", "finally", "while"} /\ RUNNING /\ shown # Nothing) =>
          tick = Max(1, REFRESH_INTERVAL)

\* back at the loop test after the full wait that followed a failed final read
C9_Witness ==
    /\ pc = "while"
    /\ RUNNING
    /\ shown.kind = "StabilizationReadFailed"
    /\ tick = Max(1, REFRESH_INTERVAL)

\* C10: once RUNNING is cleared main() stops; at most one time.sleep(1) begins
\* after that, and no iteration of the loop begins.
C10_CancelStops ==
    /\ (~RUNNING) ~> (pc = "stopped")
    /\ [](lateTicks <= 1)
    /\ [][~RUNNING => ~(pc # "find_pid" /\ pc' = "find_pid")]_vars

\* stopped after a sleep that began with RUNNING already cleared
C10_Witness ==
    /\ pc = "stopped"
    /\ lateTicks = 1
    /\ pm = "closed"

\* what a cycle prints when it fails
FailureKinds == {"NoTarget", "AttachFailed", "NoConsensus", "StabilizationReadFailed"}

\* C11: main() is past its loop only with RUNNING cleared; after any failure
\* message, and after a close_process that raised, the loop comes to look for
\* the process again unless RUNNING is cleared.
C11_OnlyCancelStops ==
    /\ [](pc = "stopped" => ~RUNNING)
    /\ (shown.kind \in FailureKinds \/ pm = "close_failed")
          ~> (pc = "find_pid" \/ ~RUNNING)

\* a new iteration attaching after one whose close_process raised
C11_Witness ==
    /\ pc = "attach"
    /\ RUNNING
    /\ pm = "close_failed"
    /\ results = <<>>
    /\ attempts # <<>>

\* C12: the value printed is the one read at the winner after the vote, when
\* the game changed it since the loop over entries included; when that read
\* raises, no result is printed, "Memory read failed." is, and the wait loop
\* of that message starts.
C12_ReportsReread ==
    [][(pc = "confirm" /\ pc' # "confirm")
         => /\ pc' = "wait_check"
            /\ tick' = 0
            /\ IF CanRead(mem, best_addr)
               THEN /\ shown'.kind = "Result"
                    /\ shown'.addr = best_addr
                    /\ shown'.value = ReadInt(mem, best_addr)
               ELSE /\ shown' = Failure("StabilizationReadFailed")
                    /\ wsite' = "readfail"]_vars

\* a result whose value differs from the one the loop over entries read at
\* the winner
C12_Witness ==
    /\ shown.kind = "Result"
    /\ \E k \in 1..Len(results) :
          /\ results[k][1] = shown.addr
          /\ results[k][2] # shown.value
          /\ ReadInt(mem, shown.addr) = shown.value

\* C13: once the loop over entries is over with every resolve_pointer call
\* having returned None, the cycle is in the wait loop of "No valid pointers
\* found." with only that message printed, never at the read of a winner, and
\* in the first attached cycle best_addr, count and value are still unset.
C13_ZeroResolution ==
    (PastResolution /\ \A k \in 1..Len(attempts) : attempts[k].ret = None)
      => /\ pc # "confirm"
         /\ wsite = "noresults"
         /\ shown = Failure("NoConsensus")
         /\ results = <<>>
         /\ hist.last = Nothing => (best_addr = None /\ count = 0 /\ value = 0)

\* two definitions tried on a live target, neither chain resolved
C13_Witness ==
    /\ alive
    /\ pc = "wait_sleep"
    /\ wsite = "noresults"
    /\ Len(attempts) = 2
    /\ \A k \in 1..2 : attempts[k].ret = None
    /\ \E k \in 1..2 : attempts[k].reads # <<>>
    /\ shown.kind = "NoConsensus"

\* an attached cycle has printed its outcome and not yet closed its handle
CycleOutcomeShown ==
    /\ pc \in {"wait_check", "wait_sleep", "wait_done", "finally"}
    /\ wsite \in {"noresults", "readfail", "refresh"}

\* C14: an attached cycle that follows another one, with the target's memory
\* untouched since that one attached, prints what that one printed: the same
\* address, value, count and total, or the same failure message.
C14_SameOutcome ==
    (CycleOutcomeShown /\ hist.last # Nothing /\ ~hist.since) => shown = hist.last

\* the second of two cycles over the memory the game left after its write,
\* both printing a result from two definitions
C14_Witness ==
    /\ CycleOutcomeShown
    /\ hist.last # Nothing
    /\ ~hist.since
    /\ hist.writes > 0
    /\ shown.kind = "Result"
    /\ shown.total = 2
    /\ shown = hist.last

\* an offset node of no text, of no character, or of blanks only
IsBlank(node) == node = <<>> \/ \A k \in 1..Len(node[1]) : node[1][k] = " "

\* the number an offset node's text stands for
OffsetNumber(node) == int16(replace(lower(strip(node[1])), <<"0", "x">>)).val

\* the offset nodes of a CheatEntry, in file order
NodesOf(entry) == IF entry.Offsets = <<>> THEN <<>> ELSE entry.Offsets[1]

\* the non-blank offsets of a CheatEntry as numbers, in file order
RECURSIVE FileOffsets(_)
FileOffsets(nodes) ==
    IF nodes = <<>> THEN <<>>
    ELSE IF IsBlank(Head(nodes)) THEN FileOffsets(Tail(nodes))
    ELSE <<OffsetNumber(Head(nodes))>> \o FileOffsets(Tail(nodes))

\* a CheatEntry with an address specification
HasAddress(entry) == entry.Address # <<>> /\ entry.Address[1] # <<>>

\* the entries of the file that have an address specification, in file order
KeptEntries == SelectSeq(xml, HasAddress)

\* C15: after a load that did not raise, the entries are those of the file
\* that have an address, in file order, each with its non-blank offsets in the
\* order opposite to the file's.
C15_OffsetsReversed ==
    pc \in {"loaded", "no_entries"}
      => /\ Len(entries) = Len(KeptEntries)
         /\ \A j \in 1..Len(entries) :
               LET file == FileOffsets(NodesOf(KeptEntries[j]))
                   spec == parse_address_spec(KeptEntries[j].Address[1])
               IN  /\ entries[j][1] = spec.module_name
                   /\ entries[j][2] = spec.base_offset
                   /\ Len(entries[j][3]) = Len(file)
                   /\ \A k \in 1..Len(file) :
                         entries[j][3][k] = file[Len(file) + 1 - k]

\* three entries, the middle one without address: the two kept ones in file
\* order, the first with 0x8, blank, 0X1A, no text, 4 stored as 4, 26, 8
C15_Witness ==
    /\ pc = "loaded"
    /\ Len(xml) = 3
    /\ ~HasAddress(xml[2])
    /\ entries = << <<<<"G">>, 16, <<4, 26, 8>>>>, <<<<"U">>, 2, <<>>>> >>

\* C16: load_entries raises only when it raises on the file's entries that
\* have an address, and what it returns is what it returns on those.
C16_AddressLessSkipped ==
    (pc # "load" /\ ~load_entries(KeptEntries).raised)
      => /\ pc # "crashed"
         /\ entries = load_entries(KeptEntries).parsed

\* a cycle between the loop test and its wait loop
MidCycle == pc \in {"find_pid", "attach", "resolve", "confirm"}

\* C17: with RUNNING cleared in the middle of a cycle, the cycle still tries
\* every definition, no step leaves it but the one that prints its message
\* and starts the wait loop, that wait loop is left without a sleep, and the
\* cycle does get there.
C17_CancelNotPreemptive ==
    /\ []((~RUNNING /\ PastResolution) => Len(attempts) = Len(entries))
    /\ [][(~RUNNING /\ MidCycle /\ pc' # pc)
            => /\ pc' \in {"attach", "resolve", "confirm", "wait_check"}
               /\ pc' = "wait_check" => (shown'.kind # "nothing" /\ tick' = 0)]_vars
    /\ [][(~RUNNING /\ pc = "wait_check" /\ tick = 0)
            => (pc' \in {"wait_check", "wait_done"} /\ tick' = 0)]_vars
    /\ (~RUNNING /\ MidCycle)
          ~> (pc = "wait_done" /\ tick = 0 /\ shown.kind # "nothing")

\* RUNNING cleared before the read of the winner, after three definitions
C17_Witness ==
    /\ ~RUNNING
    /\ pc = "confirm"
    /\ Len(attempts) = 3
    /\ Len(results) >= 2

\* what main() assigns
MainVars == <<pc, pm, held, i, results, attempts, best_addr, count, value, tick,
              wsite, shown>>

\* C18: the process check, the attach and the read of the winner are each one
\* step that leaves its place; each place is entered from the one before it
\* only, the process check from the loop test and the loop test from a wait
\* loop that is over; the loop over entries calls resolve_pointer once per
\* definition, in the order of entries.
C18_NoRetryInCycle ==
    /\ [][(pc \in {"find_pid", "attach", "confirm"} /\ pc' = pc)
            => UNCHANGED MainVars]_vars
    /\ [][pc' # pc =>
            /\ pc' = "find_pid" => pc = "while"
            /\ pc' = "attach" => pc = "find_pid"
            /\ pc' = "resolve" => (pc = "attach" /\ i' = 1 /\ attempts' = <<>>)
            /\ pc' = "confirm" => pc = "resolve"
            /\ pc' = "wait_check" /\ pc # "wait_sleep" => (MidCycle /\ tick' = 0)
            /\ pc' = "wait_done" => (pc = "wait_check"
                                      /\ (tick = WaitTicks(wsite) \/ ~RUNNING))
            /\ pc' = "finally" => pc = "wait_done"
            /\ pc' = "while" => pc \in {"wait_done", "finally"}]_vars
    /\ [][(pc = "resolve" /\ pc' = pc /\ ~UNCHANGED MainVars)
            => /\ i <= Len(entries)
               /\ i' = i + 1
               /\ Len(attempts') = i
               /\ SubSeq(attempts', 1, i - 1) = attempts
               /\ alive => attempts'[i].ret =
                             resolve_pointer(mem, entries[i][1], entries[i][2],
                                             entries[i][3])]_vars

\* the second definition about to be resolved in a cycle that follows one in
\* which no chain resolved
C18_Witness ==
    /\ pc = "resolve"
    /\ i = 2
    /\ Len(attempts) = 1
    /\ Len(entries) = 3
    /\ hist.last.kind = "NoConsensus"

\* C19: after a resolve_pointer call that returned 0 no value is read; 0 is in
\* no result, is never the winner and is never printed; once the loop over
\* entries is over with every call having returned 0, "No valid pointers
\* found." is what the cycle prints.
C19_ZeroIsFailure ==
    /\ \A k \in 1..Len(attempts) : attempts[k].ret = 0 => ~attempts[k].tried
    /\ \A k \in 1..Len(results) : results[k][1] # 0
    /\ pc = "confirm" => best_addr # 0
    /\ shown.kind = "Result" => shown.addr # 0
    /\ (PastResolution /\ \A k \in 1..Len(attempts) : attempts[k].ret = 0)
         => (shown = Failure("NoConsensus") /\ wsite = "noresults" /\ results = <<>>)

\* a live target whose pointer is null: the chain read it and resolved to 0
C19_Witness ==
    /\ alive
    /\ pc = "wait_sleep"
    /\ wsite = "noresults"
    /\ attempts # <<>>
    /\ \A k \in 1..Len(attempts) :
          attempts[k].ret = 0 /\ attempts[k].reads # <<>> /\ ~attempts[k].tried
    /\ shown = Failure("NoConsensus")

\* the wait loop of a failed process check or of a failed attach
WaitOutsideTry ==
    pc \in {"wait_check", "wait_sleep", "wait_done"} /\ wsite \in {"nopid", "attach"}

\* C20: the loop over entries, the tally and the read of the winner run with
\* the one handle that the attach of the same iteration opened; no handle is
\* open at the loop test, the process check or the attach, nor in the wait
\* loop of a failed check or attach, from which the iteration ends without a
\* resolve_pointer call, a tally or a read.
C20_ReadsUnderHandle ==
    /\ [](pc \in {"resolve", "confirm"} => (pm = "open" /\ held = 1))
    /\ [](pc \in {"while", "find_pid", "attach"} => (pm # "open" /\ held = 0))
    /\ [](WaitOutsideTry => (pm # "open" /\ held = 0))
    /\ [][(pc' = "resolve" /\ pc # "resolve")
            => (pc = "attach" /\ pm # "open" /\ pm' = "open" /\ held' = held + 1)]_vars
    /\ [][(attempts' # attempts \/ results' # results \/ best_addr' # best_addr
             \/ count' # count \/ value' # value)
            => (pm' = "open" /\ held' = 1)]_vars
    /\ [][WaitOutsideTry
            => /\ pc' \in {"wait_check", "wait_sleep", "wait_done", "while"}
               /\ UNCHANGED <<attempts, results, best_addr, count, value>>]_vars

\* the read of the winner about to be made in an iteration that follows an
\* attached one, whose handle was closed
C20_Witness ==
    /\ pc = "confirm"
    /\ pm = "open"
    /\ held = 1
    /\ hist.last.kind = "Result"

=============================================================================
